---- MODULE Spec2Model ----
(***************************************************************************)
(* Resume / job-description matcher: preprocess_text (preprocess.py),      *)
(* match_resumes (matcher.py) and the /match handler (app.py).             *)
(*                                                                         *)
(* Python evaluates an expression once and names its value.  An operator   *)
(* here does the same: The({body : v \in {e}}) evaluates e once and uses   *)
(* its value v in body.                                                    *)
(***************************************************************************)
EXTENDS Integers, Sequences, FiniteSets, TLC

\* the element of a one-element set
The(S) == CHOOSE r \in S : TRUE

\* the sequence <<F(1), ..., F(n)>>
Tup(F(_), n) == SubSeq([i \in 1..n |-> F(i)], 1, n)

(***************************************************************************)
(* Text.  A string is the sequence of its characters; a character is      *)
(* written as itself, except "quote", "backslash" and "grave".             *)
(***************************************************************************)
\* str.lower (preprocess.py:45) on the letters that occur in the inputs
Lower(c) ==
    CASE c = "T" -> "t" [] c = "E" -> "e" [] c = "M" -> "m" [] c = "G" -> "g"
      [] OTHER -> c

LowerText(text) == The({Tup(LAMBDA i : Lower(t[i]), Len(t)) : t \in {text}})

\* ord() of the characters that occur in terms: Python compares strings
\* (sorted vocabulary) by code point
Ord(c) ==
    CASE c = "a" -> 97  [] c = "b" -> 98  [] c = "c" -> 99  [] c = "d" -> 100
      [] c = "e" -> 101 [] c = "g" -> 103 [] c = "h" -> 104 [] c = "i" -> 105
      [] c = "j" -> 106 [] c = "l" -> 108 [] c = "m" -> 109 [] c = "n" -> 110
      [] c = "o" -> 111 [] c = "r" -> 114 [] c = "s" -> 115 [] c = "t" -> 116
      [] c = "_" -> 95  [] c = "3" -> 51

\* string.punctuation (preprocess.py:54)
Punctuation ==
    <<"!", "quote", "#", "$", "%", "&", "'", "(", ")", "*", "+", ",", "-", ".", "/", ":",
      ";", "<", "=", ">", "?", "@", "[", "backslash", "]", "^", "_", "grave", "{", "|",
      "}", "~">>

\* \w of the vectorizer's token pattern: letters, digits, underscore
IsWordChar(c) == c \in {"a", "b", "c", "d", "e", "g", "h", "i", "j", "l", "m", "n",
                        "o", "r", "s", "t", "T", "E", "M", "G", "_", "3"}

IsSpace(c) == c = " "

\* `x in s` for strings: x is a contiguous run of s (the empty run included)
IsSubstring(x, s) ==
    \E i \in 1..(Len(s) + 1) :
        /\ i + Len(x) - 1 <= Len(s)
        /\ SubSeq(s, i, i + Len(x) - 1) = x

(***************************************************************************)
(* binary64 arithmetic.  The scores of matcher.py are numpy float64 values *)
(* converted with float(); the operations the pipeline performs on them    *)
(* (multiply, add, divide, square root, all on non-negative values, all    *)
(* rounded to nearest-even) are computed here on 53-bit significands held  *)
(* as little-endian sequences of eight limbs below Base.                   *)
(***************************************************************************)
Base == 2^14
LimbBits == CHOOSE k \in 1..30 : 2^k = Base
Limbs == 1..8
NLimbs == Cardinality(Limbs)

\* significand width of a float64 (numpy's dtype of the tf-idf matrix)
MantBits == 53

BZero == <<0, 0, 0, 0, 0, 0, 0, 0>>
BOne == <<1, 0, 0, 0, 0, 0, 0, 0>>

BOfInt(n) == <<n % Base, (n \div Base) % Base, n \div (Base * Base), 0, 0, 0, 0, 0>>

\* carry (or borrow) propagation
BNorm(limbs) ==
    The({LET v1 == c[1]
             v2 == c[2] + (v1 \div Base)
             v3 == c[3] + (v2 \div Base)
             v4 == c[4] + (v3 \div Base)
             v5 == c[5] + (v4 \div Base)
             v6 == c[6] + (v5 \div Base)
             v7 == c[7] + (v6 \div Base)
             v8 == c[8] + (v7 \div Base)
         IN  <<v1 % Base, v2 % Base, v3 % Base, v4 % Base,
               v5 % Base, v6 % Base, v7 % Base, v8 % Base>> : c \in {limbs}})

BAdd(x, y) == The({BNorm(Tup(LAMBDA i : a[i] + b[i], NLimbs)) : a \in {x}, b \in {y}})
BSub(x, y) == The({BNorm(Tup(LAMBDA i : a[i] - b[i], NLimbs)) : a \in {x}, b \in {y}})

BCmp(x, y) ==
    The({LET D == {i \in Limbs : a[i] # b[i]}
         IN  IF D = {} THEN 0
             ELSE LET top == CHOOSE i \in D : \A j \in D : j <= i
                  IN  IF a[top] < b[top] THEN -1 ELSE 1 : a \in {x}, b \in {y}})

BGeq(x, y) == BCmp(x, y) >= 0

\* product of two numbers below Base^4
BMul(x, y) ==
    The({LET T(i, k) == IF k + 1 - i \in 1..4 THEN a[i] * b[k + 1 - i] ELSE 0
         IN  BNorm(Tup(LAMBDA k : T(1, k) + T(2, k) + T(3, k) + T(4, k), NLimbs)) :
         a \in {x}, b \in {y}})

\* x * k for x below Base^4 and 0 <= k <= Base
BScale(x, k) == The({BNorm(Tup(LAMBDA i : a[i] * n, NLimbs)) : a \in {x}, n \in {k}})

Limb(a, i) == IF i \in Limbs THEN a[i] ELSE 0

BShr(x, k) ==
    The({LET ls == s \div LimbBits
             bs == s % LimbBits
         IN  Tup(LAMBDA i : (Limb(a, i + ls) \div 2^bs)
                            + (Limb(a, i + ls + 1) % 2^bs) * 2^(LimbBits - bs), NLimbs) :
         a \in {x}, s \in {k}})

BShl(x, k) ==
    The({LET ls == s \div LimbBits
             bs == s % LimbBits
         IN  Tup(LAMBDA i : (Limb(a, i - ls) % 2^(LimbBits - bs)) * 2^bs
                            + (Limb(a, i - ls - 1) \div 2^(LimbBits - bs)), NLimbs) :
         a \in {x}, s \in {k}})

\* number of bits of a limb
Log2Up(limb) ==
    The({CHOOSE k \in 0..LimbBits : n < 2^k /\ (k = 0 \/ n >= 2^(k - 1)) : n \in {limb}})

BitLen(x) ==
    The({LET D == {i \in Limbs : a[i] # 0}
         IN  IF D = {} THEN 0
             ELSE LET top == CHOOSE i \in D : \A j \in D : j <= i
                  IN  (top - 1) * LimbBits + Log2Up(a[top]) : a \in {x}})

BBit(a, k) == (a[(k \div LimbBits) + 1] \div 2^(k % LimbBits)) % 2

(* a float64 >= 0: value m * 2^e with 2^52 <= m < 2^53, or zero *)
FZero == [m |-> BZero, e |-> 0]
IsZero(x) == x.m = BZero

\* n of len > 53 bits, times 2^e, rounded to 53 bits, nearest-even
RoundDown(n, len, e, sticky) ==
    LET s == len - MantBits
    IN  The({LET half == BBit(n, s - 1) = 1
                 low  == sticky \/ BShl(BShr(n, s - 1), s - 1) # n
                 up   == half /\ (low \/ BBit(q, 0) = 1)
             IN  The({IF BitLen(q1) > MantBits
                      THEN [m |-> BShr(q1, 1), e |-> e + s + 1]
                      ELSE [m |-> q1, e |-> e + s] :
                      q1 \in {IF up THEN BAdd(q, BOne) ELSE q}}) :
             q \in {BShr(n, s)}})

\* round big * 2^exp (sticky: a non-zero part below big's last bit was
\* dropped) to 53 bits, nearest-even
FRound(big, exp, sticky) ==
    The({The({IF len = 0 THEN FZero
              ELSE IF len <= MantBits
                   THEN [m |-> BShl(n, MantBits - len), e |-> e - (MantBits - len)]
              ELSE RoundDown(n, len, e, st) : len \in {BitLen(n)}}) :
         n \in {big}, e \in {exp}, st \in {sticky}})

FOfInt(n) == FRound(BOfInt(n), 0, FALSE)

FMul(x, y) ==
    The({IF IsZero(a) \/ IsZero(b) THEN FZero
         ELSE FRound(BMul(a.m, b.m), a.e + b.e, FALSE) : a \in {x}, b \in {y}})

FAdd(x, y) ==
    The({IF IsZero(a) THEN b
         ELSE IF IsZero(b) THEN a
         ELSE LET hi == IF a.e >= b.e THEN a ELSE b
                  lo == IF a.e >= b.e THEN b ELSE a
                  d  == hi.e - lo.e
              IN  IF d > MantBits + 2 THEN hi
                  ELSE FRound(BAdd(BShl(hi.m, d), lo.m), lo.e, FALSE) :
         a \in {x}, b \in {y}})

\* the leading bits of a 53-bit significand
Lead(m) == The({t[1] + Base * t[2] : t \in {BShr(m, MantBits - LimbBits - 1)}})

\* c is the quotient of rb by d
IsQuotient(rb, d, c) ==
    The({BGeq(rb, p) /\ BCmp(BSub(rb, p), d) < 0 : p \in {BScale(d, c)}})

\* one limb of long division: for rem < div, the quotient and remainder of
\* rem * Base by div; the quotient is estimated from the leading bits of
\* rem and div and is off by two at most
DivLimb(rem, div) ==
    The({The({The({[q |-> q, r |-> BSub(rb, BScale(d, q))] :
                   q \in {CHOOSE c \in {k \in (qhat - 2)..(qhat + 2) : k >= 0} :
                              IsQuotient(rb, d, c)}}) :
              qhat \in {(Lead(r) * Base) \div Lead(d)}, rb \in {BShl(r, LimbBits)}}) :
         r \in {rem}, d \in {div}})

RECURSIVE LongDiv(_, _, _)
\* k more limbs of the quotient, the last one first in acc.q
LongDiv(acc, div, k) ==
    IF k = 0 THEN acc
    ELSE The({The({LongDiv([q |-> <<step.q>> \o a.q, r |-> step.r], d, k - 1) :
                   step \in {DivLimb(a.r, d)}}) :
              a \in {acc}, d \in {div}})

\* x / y for y # 0 (the only divisor is the norm of a non-zero row): the
\* integer bit and four limbs of fraction bits, then rounded
FDiv(x, y) ==
    The({IF IsZero(b) \/ IsZero(a) THEN FZero
         ELSE The({The({FRound(d.q \o <<0, 0, 0>>, a.e - b.e - 4 * LimbBits,
                               d.r # BZero) :
                        d \in {LongDiv([q |-> <<IF first THEN 1 ELSE 0>>,
                                        r |-> IF first THEN BSub(a.m, b.m) ELSE a.m],
                                       b.m, 4)}}) :
                   first \in {BGeq(a.m, b.m)}}) :
         a \in {x}, b \in {y}})

\* est + 4 - k
NearBy(est, k) == IF k <= 4 THEN BAdd(est, BOfInt(4 - k)) ELSE BSub(est, BOfInt(k - 4))

\* cand is the integer square root of n
IsRoot(n, cand) ==
    The({BGeq(n, BMul(a, a)) /\ BCmp(n, BMul(BAdd(a, BOne), BAdd(a, BOne))) < 0 :
         a \in {cand}})

\* floor(sqrt(n)) for n = m * 2^56 below 2^110, found next to the estimate
BSqrtNear(big, estimate) ==
    The({NearBy(est, CHOOSE k \in 0..36 : IsRoot(n, NearBy(est, k))) :
         n \in {big}, est \in {estimate}})

\* one Newton step towards sqrt(x): (s + x / s) / 2
Newton(x, s0) ==
    The({The({[t EXCEPT !.e = @ - 1] : t \in {FAdd(s, FDiv(x, s))}}) : s \in {s0}})

\* sqrt(x) for the significand m2 and even exponent e2 of x
RootOf(x, m2, e2) ==
    LET g  == The({CHOOSE q \in 64..128 : q * q <= lead /\ lead < (q + 1) * (q + 1) :
                   lead \in {BShr(m2, MantBits - LimbBits + 1)[1]}})
        s0 == FRound(BOfInt(g), (e2 \div 2) + 20, FALSE)
    IN  The({The({FRound(root, (e2 - (MantBits + 3)) \div 2, BMul(root, root) # n) :
                  root \in {BSqrtNear(n, BShl(s3.m, s3.e - (e2 \div 2) + 28))}}) :
             s3 \in {Newton(x, Newton(x, Newton(x, s0)))},
             n \in {BShl(m2, MantBits + 3)}})

\* sqrt(x), correctly rounded: three Newton steps from a seven-bit estimate
\* give the root to a few units, the exact integer root gives the rounding
FSqrt(x) ==
    The({IF IsZero(a) THEN FZero
         ELSE IF a.e % 2 = 1
              THEN The({RootOf(a, m2, a.e - 1) : m2 \in {BShl(a.m, 1)}})
              ELSE RootOf(a, a.m, a.e) : a \in {x}})

FLess(x, y) ==
    The({IF IsZero(b) THEN FALSE
         ELSE IF IsZero(a) THEN TRUE
         ELSE a.e < b.e \/ (a.e = b.e /\ BCmp(a.m, b.m) < 0) : a \in {x}, b \in {y}})

FOne == FOfInt(1)

\* np.log(p / q) for the ratios (n + 1) / (df + 1) that occur: the float64
\* nearest to the logarithm
NpLog(p, q) ==
    LET F(l1, l2, l3, l4, e) == [m |-> <<l1, l2, l3, l4, 0, 0, 0, 0>>, e |-> e]
    IN  The({CASE a = b         -> FZero
               [] 2 * a = 3 * b -> F(6220, 13054, 12862, 1660, -54)
               [] a = 2 * b     -> F(14831, 15336, 9263, 1419, -53)
               [] 3 * a = 4 * b -> F(7057, 1235, 5665, 1178, -54)
               [] 2 * a = 5 * b -> F(8312, 899, 9231, 1876, -53)
               [] 3 * a = 5 * b -> F(5202, 10756, 2799, 1046, -53)
               [] 4 * a = 5 * b -> F(6690, 7786, 16252, 1827, -55)
               [] a = 3 * b     -> F(779, 10932, 16039, 1124, -52)
               [] 5 * a = 6 * b -> F(5749, 1938, 9473, 1493, -55) :
             a \in {p}, b \in {q}})

(***************************************************************************)
(* preprocess.py                                                           *)
(***************************************************************************)
\* the punctuation rules of word_tokenize that apply to the inputs: a comma
\* not followed by a digit, and the period that ends the text, become
\* tokens of their own
SplitsOff(text, i) ==
    \/ /\ text[i] = ","
       /\ (i = Len(text) \/ text[i + 1] # "3")
    \/ /\ text[i] = "."
       /\ \A k \in (i + 1)..Len(text) : IsSpace(text[k])
       /\ i > 1
       /\ text[i - 1] # "."
       /\ ~IsSpace(text[i - 1])

\* the tokens of text that begin at the positions starts
TokensAt(text, starts) ==
    LET Solo(i)  == SplitsOff(text, i)
        Plain(i) == ~IsSpace(text[i]) /\ ~Solo(i)
        end(s)   == IF Solo(s) THEN s
                    ELSE CHOOSE j \in s..Len(text) :
                             /\ \A k \in s..j : Plain(k)
                             /\ (j = Len(text) \/ ~Plain(j + 1))
    IN  Tup(LAMBDA k : SubSeq(text, starts[k], end(starts[k])), Len(starts))

\* word_tokenize(text) (preprocess.py:48): white space separates the tokens,
\* a split-off character is a token of its own
WordTokenize(text) ==
    The({LET Solo(i)  == SplitsOff(t, i)
             Plain(i) == ~IsSpace(t[i]) /\ ~Solo(i)
         IN  The({TokensAt(t, starts) :
                  starts \in {SelectSeq(Tup(LAMBDA i : i, Len(t)),
                                        LAMBDA i : \/ Solo(i)
                                                   \/ /\ Plain(i)
                                                      /\ (i = 1 \/ ~Plain(i - 1)))}}) :
         t \in {text}})

\* lemmatizer.lemmatize(token): the WordNet base form where the table has
\* one, the token itself otherwise
Lemmatize(lem, token) == IF token \in DOMAIN lem THEN lem[token] ELSE token

\* the test of preprocess.py:54
Kept(sw, token) == ~IsSubstring(token, Punctuation) /\ token \notin sw

\* processed_tokens (preprocess.py:51-57)
ProcessedTokens(sw, lem, text) ==
    The({The({Tup(LAMBDA i : Lemmatize(lem, kept[i]), Len(kept)) :
              kept \in {SelectSeq(tokens, LAMBDA t : Kept(sw, t))}}) :
         tokens \in {WordTokenize(LowerText(text))}})

RECURSIVE Join(_, _)
\* sep.join(seqs)
Join(seqs, sep) ==
    The({IF parts = << >> THEN << >>
         ELSE IF Len(parts) = 1 THEN parts[1]
         ELSE parts[1] \o sep \o Join(Tail(parts), sep) : parts \in {seqs}})

\* preprocess_text(text)
PreprocessText(sw, lem, text) == Join(ProcessedTokens(sw, lem, text), <<" ">>)

(***************************************************************************)
(* TfidfVectorizer() with its default parameters (matcher.py:36-39)        *)
(***************************************************************************)
\* the runs that begin at the positions starts
RunsAt(In(_), n, starts) ==
    LET end(s) == CHOOSE j \in s..n :
                      /\ \A k \in s..j : In(k)
                      /\ (j = n \/ ~In(j + 1))
    IN  Tup(LAMBDA k : [from |-> starts[k], to |-> end(starts[k])], Len(starts))

\* the maximal runs of positions 1..n that satisfy In, in order, as
\* records [from, to]
Runs(In(_), n) ==
    The({RunsAt(In, n, starts) :
         starts \in {SelectSeq(Tup(LAMBDA i : i, n),
                               LAMBDA i : In(i) /\ (i = 1 \/ ~In(i - 1)))}})

\* the analyzer: lowercase, then token_pattern (?u)\b\w\w+\b, the maximal
\* runs of two or more word characters
Analyze(doc) ==
    The({The({Tup(LAMBDA k : SubSeq(low, long[k].from, long[k].to), Len(long)) :
              long \in {SelectSeq(Runs(LAMBDA i : IsWordChar(low[i]), Len(low)),
                                  LAMBDA r : r.to > r.from)}}) :
         low \in {LowerText(doc)}})

RECURSIVE StrLess(_, _)
\* Python's < on strings
StrLess(x, y) ==
    The({IF b = << >> THEN FALSE
         ELSE IF a = << >> THEN TRUE
         ELSE IF Ord(a[1]) # Ord(b[1]) THEN Ord(a[1]) < Ord(b[1])
         ELSE StrLess(Tail(a), Tail(b)) : a \in {x}, b \in {y}})

RECURSIVE SortedTerms(_)
\* sorted(terms)
SortedTerms(terms) ==
    The({IF S = {} THEN << >>
         ELSE The({<<least>> \o SortedTerms(S \ {least}) :
                   least \in {CHOOSE t \in S : \A u \in S \ {t} : StrLess(t, u)}}) :
         S \in {terms}})

\* the distinct terms of the documents
Terms(docs) ==
    UNION {{tokens[k] : k \in 1..Len(tokens)} :
           tokens \in {Analyze(docs[d]) : d \in 1..Len(docs)}}

\* vocabulary_: the distinct terms of the documents, sorted
Vocabulary(docs) == SortedTerms(Terms(docs))

Count(tokens, term) == Len(SelectSeq(tokens, LAMBDA t : t = term))

\* the term counts of one document over the vocabulary
CountRow(vocabulary, doc) ==
    The({Tup(LAMBDA j : Count(tokens, vocab[j]), Len(vocab)) :
         tokens \in {Analyze(doc)}, vocab \in {vocabulary}})

\* idf_ with smooth_idf: log((1 + n) / (1 + df)) + 1
Idf(vocabulary, documents) ==
    The({The({LET df(j) == Cardinality({d \in 1..Len(docs) : counts[d][j] > 0})
              IN  Tup(LAMBDA j : FAdd(NpLog(Len(docs) + 1, df(j) + 1), FOne), Len(vocab)) :
              counts \in {Tup(LAMBDA d : CountRow(vocab, docs[d]), Len(docs))}}) :
         vocab \in {vocabulary}, docs \in {documents}})

RECURSIVE SumSquares(_, _, _)
\* the sum of the squares of row[j..], added to acc in column order
SumSquares(row, from, acc) ==
    The({IF j > Len(r) THEN a
         ELSE SumSquares(r, j + 1, FAdd(a, FMul(r[j], r[j]))) :
         r \in {row}, j \in {from}, a \in {acc}})

\* normalize(X, norm='l2') on one row: a zero row is left alone
Normalize(row) ==
    The({The({IF IsZero(sum) THEN r
              ELSE The({Tup(LAMBDA j : FDiv(r[j], norm), Len(r)) :
                        norm \in {FSqrt(sum)}}) :
              sum \in {SumSquares(r, 1, FZero)}}) :
         r \in {row}})

\* transform: tf * idf, then l2-normalised rows
TfidfRow(vocabulary, idf, doc) ==
    The({Normalize(Tup(LAMBDA j : FMul(FOfInt(counts[j]), w[j]), Len(counts))) :
         counts \in {CountRow(vocabulary, doc)}, w \in {idf}})

RECURSIVE Dot(_, _, _, _)
\* the products x[j] * y[j] of the columns from on, added to acc in
\* column order
Dot(x, y, from, acc) ==
    The({IF j > Len(u) THEN a
         ELSE Dot(u, v, j + 1, FAdd(a, FMul(u[j], v[j]))) :
         u \in {x}, v \in {y}, j \in {from}, a \in {acc}})

\* cosine_similarity(X, Y)[0][i]: both rows normalised again, then the
\* sparse product, summed in column order
CosineSimilarity(x, y) == Dot(Normalize(x), Normalize(y), 1, FZero)

(***************************************************************************)
(* matcher.py                                                              *)
(***************************************************************************)
RECURSIVE InsertDesc(_, _)
\* entry goes behind every entry whose score is not below its own
InsertDesc(sorted, entry) ==
    The({IF s = << >> THEN <<x>>
         ELSE IF FLess(s[1].score, x.score) THEN <<x>> \o s
         ELSE <<s[1]>> \o InsertDesc(Tail(s), x) : s \in {sorted}, x \in {entry}})

RECURSIVE SortFrom(_, _, _)
SortFrom(rs, i, acc) ==
    IF i > Len(rs) THEN acc
    ELSE The({SortFrom(rs, i + 1, a) : a \in {InsertDesc(acc, rs[i])}})

RECURSIVE InsertAscending(_, _)
InsertAscending(sorted, entry) ==
    The({IF s = << >> THEN <<x>>
         ELSE IF FLess(x.score, s[1].score) THEN <<x>> \o s
         ELSE <<s[1]>> \o InsertAscending(Tail(s), x) : s \in {sorted}, x \in {entry}})

RECURSIVE SortAscendingFrom(_, _, _)
SortAscendingFrom(rs, i, acc) ==
    IF i > Len(rs) THEN acc
    ELSE The({SortAscendingFrom(rs, i + 1, a) : a \in {InsertAscending(acc, rs[i])}})

\* a sort that is ascending and then reversed: equal scores come out in
\* reverse input order
SortThenReverse(rs) ==
    The({Tup(LAMBDA i : up[Len(up) + 1 - i], Len(up)) :
         up \in {SortAscendingFrom(rs, 1, << >>)}})

\* results.sort(key=lambda x: x["score"], reverse=True) (matcher.py:58)
SortByScore(rs) == SortFrom(rs, 1, << >>)

\* fit: learn vocabulary_ and idf_ from the documents (matcher.py:39)
Fit(docs) ==
    The({[vocabulary |-> vocab, idf |-> Idf(vocab, docs)] : vocab \in {Vocabulary(docs)}})

\* transform: one tf-idf row per document (matcher.py:39)
Transform(vectorizer, docs) ==
    Tup(LAMBDA d : TfidfRow(vectorizer.vocabulary, vectorizer.idf, docs[d]), Len(docs))

\* matcher.py:29-33
AllTexts(sw, lem, resume_texts, job_text) ==
    LET preprocessed_resumes ==
            Tup(LAMBDA i : PreprocessText(sw, lem, resume_texts[i]), Len(resume_texts))
        preprocessed_job == PreprocessText(sw, lem, job_text)
    IN  <<preprocessed_job>> \o preprocessed_resumes

\* matcher.py:42-55: the job row against every resume row, paired with the
\* names by position
Results(tfidf_matrix, resume_names) ==
    The({Tup(LAMBDA i : [name  |-> names[i],
                         score |-> CosineSimilarity(matrix[1], matrix[i + 1])],
             Len(names)) : matrix \in {tfidf_matrix}, names \in {resume_names}})

NoFrame == [all_texts |-> << >>, vocabulary |-> << >>, results |-> << >>]

Raised(exc, message, frame) ==
    [kind |-> exc, message |-> message, frame |-> frame, value |-> << >>]
Returned(value, frame) ==
    [kind |-> "return", message |-> "", frame |-> frame, value |-> value]

LengthMismatch == "resume_texts and resume_names must have the same length"
EmptyVocabulary == "empty vocabulary; perhaps the documents only contain stop words"

\* matcher.py:36-60 on the preprocessed texts
Rank(all_texts, resume_names) ==
    The({IF vectorizer.vocabulary = << >>
         THEN Raised("ValueError", EmptyVocabulary, [NoFrame EXCEPT !.all_texts = all_texts])
         ELSE The({Returned(SortByScore(results),
                            [all_texts |-> all_texts,
                             vocabulary |-> vectorizer.vocabulary,
                             results |-> results]) :
                   results \in {Results(Transform(vectorizer, all_texts), resume_names)}}) :
         vectorizer \in {Fit(all_texts)}})

\* match_resumes(resume_texts, resume_names, job_text) with the module's
\* stop_words and lemmatizer: what the call returns or raises, and its
\* locals all_texts, vocabulary and results (before the sort)
MatchResumes(sw, lem, resume_texts, resume_names, job_text) ==
    IF resume_texts = << >> \/ resume_names = << >> THEN Returned(<< >>, NoFrame)
    ELSE IF Len(resume_texts) # Len(resume_names)
         THEN Raised("ValueError", LengthMismatch, NoFrame)
    ELSE The({Rank(all_texts, resume_names) :
              all_texts \in {AllTexts(sw, lem, resume_texts, job_text)}})

(***************************************************************************)
(* app.py                                                                  *)
(***************************************************************************)
\* JSON values of a request body, as far as the handler tells them apart
JMissing == [type |-> "missing", text |-> << >>]
JNumber == [type |-> "number", text |-> << >>]
JStr(s) == [type |-> "str", text |-> s]

Response(status, error, idx, results) ==
    [kind |-> "response", status |-> status, error |-> error, idx |-> idx,
     results |-> results, total_matched |-> Len(results)]

BadRequest(error) == Response(400, error, -1, << >>)

\* the first entry of resumes the loop of app.py:83-94 rejects, 0 if none
FirstBad(resumes) ==
    LET Bad(i) == \/ resumes[i].type # "dict"
                  \/ resumes[i].name.type = "missing"
                  \/ resumes[i].content.type = "missing"
        bad == {i \in 1..Len(resumes) : Bad(i)}
    IN  IF bad = {} THEN 0 ELSE CHOOSE i \in bad : \A j \in bad : i <= j

\* job_description.strip() is empty
IsBlank(text) == \A i \in 1..Len(text) : IsSpace(text[i])

\* app.py:98-112, for the lists the loop of lines 83-94 has built
Matched(sw, lem, resume_texts, resume_names, job_text) ==
    The({IF outcome.kind = "return" THEN Response(200, "", -1, outcome.value)
         ELSE IF outcome.kind = "ValueError" THEN BadRequest(outcome.message)
         ELSE Response(500, "An internal server error occurred", -1, << >>) :
         outcome \in {MatchResumes(sw, lem, resume_texts, resume_names, job_text)}})

\* app.py:83-94, for the first rejected entry bad (0: none)
Extracted(sw, lem, resumes, job_text, bad) ==
    IF bad = 0
    THEN The({Matched(sw, lem, texts, names, job_text) :
              names \in {Tup(LAMBDA i : resumes[i].name.text, Len(resumes))},
              texts \in {Tup(LAMBDA i : resumes[i].content.text, Len(resumes))}})
    ELSE IF resumes[bad].type # "dict"
    THEN Response(400, "Resume at index {idx} must be an object", bad - 1, << >>)
    ELSE IF resumes[bad].name.type = "missing"
    THEN Response(400, "Resume at index {idx} is missing 'name' field", bad - 1, << >>)
    ELSE Response(400, "Resume at index {idx} is missing 'content' field", bad - 1, << >>)

\* match() (app.py:26-112)
Match(sw, lem, request) ==
    LET data == request.data
        resumes == data.resumes.items
        job_description == data.job_description
    IN  IF ~request.is_json THEN BadRequest("Content-Type must be application/json")
        ELSE IF data.type = "null" THEN BadRequest("Request body is required")
        ELSE IF data.resumes.type = "missing"
             THEN BadRequest("Missing required field: 'resumes'")
        ELSE IF job_description.type = "missing"
             THEN BadRequest("Missing required field: 'job_description'")
        ELSE IF data.resumes.type # "list" THEN BadRequest("'resumes' must be a list")
        ELSE IF Len(resumes) = 0 THEN BadRequest("'resumes' list cannot be empty")
        ELSE IF job_description.type # "str" \/ IsBlank(job_description.text)
             THEN BadRequest("'job_description' must be a non-empty string")
        ELSE The({Extracted(sw, lem, resumes, job_description.text, bad) :
                  bad \in {FirstBad(resumes)}})

\* health_check() (app.py:20-22)
HealthCheck == [kind |-> "response", status |-> 200, body |-> "healthy"]

(***************************************************************************)
(* The inputs                                                              *)
(***************************************************************************)
MaxCands == 2

Text_Empty == << >>
Text_MlGo == <<"m", "l", " ", "g", "o">>
Text_Ml == <<"m", "l">>
Text_C == <<"c">>
Text_The == <<"T", "h", "e">>
Text_Blank == <<" ">>
Text_Sentence ==
    <<"T", "h", "e", " ", "E", "n", "g", "i", "n", "e", "e", "r", ",", " ", "a", "n",
      "d", " ", "t", "h", "e", " ", "M", "a", "n", "a", "g", "e", "r", ".">>
Text_Plain ==
    <<"e", "n", "g", "i", "n", "e", "e", "r", " ", "m", "a", "n", "a", "g", "e", "r">>
Text_StopOnly == <<"T", "h", "e", ",", " ", "a", "n", "d", ".">>
Text_Jobs == <<"j", "o", "b", "s">>
Text_DotSlash == <<".", "/", " ", "m", "l">>
Text_CPlus == <<"c", "+", "+">>

ResumeTexts == {Text_Empty, Text_MlGo, Text_Ml, Text_C}
JobTexts == {Text_MlGo, Text_The, Text_C}
PreprocessTexts ==
    ResumeTexts \cup JobTexts \cup
    {Text_Blank, Text_Sentence, Text_Plain, Text_StopOnly, Text_Jobs, Text_DotSlash,
     Text_CPlus}
Names == {<<"A">>, <<"B">>}

\* the members of stopwords.words('english') the inputs can meet
StopWordsEnglish == {<<"t", "h", "e">>, <<"a", "n", "d">>, <<"a">>}

\* the inflected forms among the inputs and their WordNet base forms
WordNetLemmas == [t \in {Text_Jobs} |-> <<"j", "o", "b">>]

RECURSIVE SeqsOfLen(_, _)
SeqsOfLen(S, n) ==
    IF n = 0 THEN {<< >>}
    ELSE {Append(s, x) : s \in SeqsOfLen(S, n - 1), x \in S}

SeqsUpTo(S, n) == UNION {SeqsOfLen(S, k) : k \in 0..n}

\* the entries of a "resumes" list
Entries ==
    {[type |-> "dict", name |-> JStr(n), content |-> JStr(t)] :
        n \in Names, t \in {Text_Empty, Text_MlGo, Text_Ml}}
    \cup {[type |-> "str", name |-> JMissing, content |-> JMissing],
          [type |-> "dict", name |-> JMissing, content |-> JStr(Text_Ml)],
          [type |-> "dict", name |-> JStr(<<"A">>), content |-> JMissing]}

Body(resumes, job_description) ==
    [type |-> "dict", resumes |-> resumes, job_description |-> job_description]

JList(items) == [type |-> "list", items |-> items]

\* the requests POST /match can receive
Requests ==
    {[is_json |-> j,
      data |-> Body(JList(items), job)] :
        j \in {TRUE}, items \in SeqsUpTo(Entries, MaxCands),
        job \in {JStr(t) : t \in JobTexts \cup {Text_Blank}} \cup {JNumber}}
    \cup {[is_json |-> FALSE, data |-> Body(JList(<< >>), JStr(Text_Ml))],
          [is_json |-> TRUE,
           data |-> [type |-> "null", resumes |-> JList(<< >>),
                     job_description |-> JMissing]],
          [is_json |-> TRUE,
           data |-> Body([type |-> "missing", items |-> << >>], JStr(Text_Ml))],
          [is_json |-> TRUE,
           data |-> Body([type |-> "str", items |-> << >>], JStr(Text_Ml))],
          [is_json |-> TRUE,
           data |-> Body(JList(<<[type |-> "dict", name |-> JStr(<<"A">>),
                                  content |-> JStr(Text_Ml)]>>), JMissing)]}

(***************************************************************************)
(* The state                                                               *)
(***************************************************************************)
VARIABLES
    stop_words,   \* preprocess.py:27, the module's stopword set
    lemmatizer,   \* preprocess.py:26, the module's lemmatizer
    call,         \* the last call made one at a time, and its arguments
    ret,          \* what that call returned or raised
    pc,           \* where each worker's match_resumes call stands
    args,         \* the arguments of each worker's call
    locals,       \* all_texts, tfidf_matrix of each worker's call
    vec,          \* the TfidfVectorizer objects the calls have created
    out           \* what each worker's call returned or raised

vars == <<stop_words, lemmatizer, call, ret, pc, args, locals, vec, out>>

NWorkers == 2
Workers == 1..NWorkers

NoCall == [fn |-> "none"]
NoOutcome == [kind |-> "none"]
NoArgs == [resume_texts |-> << >>, resume_names |-> << >>, job_text |-> << >>]
NoLocals == [all_texts |-> << >>, tfidf_matrix |-> << >>]
NoVectorizer == [vocabulary |-> << >>, idf |-> << >>]

Init ==
    /\ stop_words = StopWordsEnglish
    /\ lemmatizer = WordNetLemmas
    /\ call = NoCall
    /\ ret = NoOutcome
    /\ pc = [w \in Workers |-> "idle"]
    /\ args = [w \in Workers |-> NoArgs]
    /\ locals = [w \in Workers |-> NoLocals]
    /\ vec = [w \in Workers |-> NoVectorizer]
    /\ out = [w \in Workers |-> NoOutcome]

(***************************************************************************)
(* Calls made one at a time: a call runs to its end before the next starts *)
(***************************************************************************)
\* match_resumes called directly, with any two lists
CallMatchResumes ==
    \E resume_texts \in SeqsUpTo(ResumeTexts, MaxCands),
       resume_names \in SeqsUpTo(Names, MaxCands),
       job_text \in JobTexts :
        /\ call.fn = "none"
        /\ call' = [fn |-> "match_resumes", resume_texts |-> resume_texts,
                    resume_names |-> resume_names, job_text |-> job_text]
        /\ ret' = MatchResumes(stop_words, lemmatizer, resume_texts, resume_names, job_text)
        /\ UNCHANGED <<stop_words, lemmatizer, pc, args, locals, vec, out>>

\* POST /match
PostMatch ==
    \E request \in Requests :
        /\ call.fn = "none"
        /\ call' = [fn |-> "match", request |-> request]
        /\ ret' = Match(stop_words, lemmatizer, request)
        /\ UNCHANGED <<stop_words, lemmatizer, pc, args, locals, vec, out>>

\* GET /health
GetHealth ==
    /\ call.fn = "none"
    /\ call' = [fn |-> "health_check"]
    /\ ret' = HealthCheck
    /\ UNCHANGED <<stop_words, lemmatizer, pc, args, locals, vec, out>>

\* preprocess_text called directly
CallPreprocessText ==
    \E text \in PreprocessTexts :
        /\ call.fn = "none"
        /\ call' = [fn |-> "preprocess_text", text |-> text]
        /\ ret' = Returned(PreprocessText(stop_words, lemmatizer, text),
                           [tokens |-> WordTokenize(LowerText(text)),
                            processed_tokens |->
                                ProcessedTokens(stop_words, lemmatizer, text)])
        /\ UNCHANGED <<stop_words, lemmatizer, pc, args, locals, vec, out>>

\* the caller has taken the outcome and can make the next call
Finish ==
    /\ call.fn # "none"
    /\ call' = NoCall
    /\ ret' = NoOutcome
    /\ UNCHANGED <<stop_words, lemmatizer, pc, args, locals, vec, out>>

Next == CallMatchResumes \/ PostMatch \/ GetHealth \/ CallPreprocessText \/ Finish

Spec == Init /\ [][Next]_vars

(***************************************************************************)
(* Calls of match_resumes running in concurrent requests, one statement    *)
(* group at a time                                                         *)
(***************************************************************************)
Call(resume_texts, resume_names, job_text) ==
    [resume_texts |-> resume_texts, resume_names |-> resume_names, job_text |-> job_text]

\* the calls the workers make
ConcurrentCalls ==
    {Call(<<Text_MlGo, Text_Ml>>, <<<<"A">>, <<"B">>>>, Text_MlGo),
     Call(<<Text_Ml, Text_C>>, <<<<"A">>, <<"B">>>>, Text_Ml),
     Call(<<Text_The>>, <<<<"A">>>>, Text_The),
     Call(<<Text_Ml>>, << >>, Text_Ml)}

\* one vectorizer object kept at module level and used by every call
ModuleVectorizer(w) == 1

\* vectorizer = TfidfVectorizer() (matcher.py:36): the object is a local of
\* the call that creates it
VectorizerOf(w) == w

\* a request thread enters match_resumes
Enter(w) ==
    /\ pc[w] = "idle"
    /\ \E c \in ConcurrentCalls : args' = [args EXCEPT ![w] = c]
    /\ pc' = [pc EXCEPT ![w] = "validate"]
    /\ UNCHANGED <<stop_words, lemmatizer, call, ret, locals, vec, out>>

\* matcher.py:22-26
Validate(w) ==
    /\ pc[w] = "validate"
    /\ IF args[w].resume_texts = << >> \/ args[w].resume_names = << >>
       THEN /\ out' = [out EXCEPT ![w] = Returned(<< >>, NoFrame)]
            /\ pc' = [pc EXCEPT ![w] = "done"]
       ELSE IF Len(args[w].resume_texts) # Len(args[w].resume_names)
       THEN /\ out' = [out EXCEPT ![w] = Raised("ValueError", LengthMismatch, NoFrame)]
            /\ pc' = [pc EXCEPT ![w] = "done"]
       ELSE /\ pc' = [pc EXCEPT ![w] = "preprocess"]
            /\ out' = out
    /\ UNCHANGED <<stop_words, lemmatizer, call, ret, args, locals, vec>>

\* matcher.py:29-33, reading the module's stop_words and lemmatizer
Preprocess(w) ==
    /\ pc[w] = "preprocess"
    /\ locals' = [locals EXCEPT ![w].all_texts =
                      AllTexts(stop_words, lemmatizer, args[w].resume_texts,
                               args[w].job_text)]
    /\ pc' = [pc EXCEPT ![w] = "fit"]
    /\ UNCHANGED <<stop_words, lemmatizer, call, ret, args, vec, out>>

\* matcher.py:36-39, the fit of fit_transform
FitVectorizer(w) ==
    /\ pc[w] = "fit"
    /\ IF Vocabulary(locals[w].all_texts) = << >>
       THEN /\ out' = [out EXCEPT ![w] =
                          Raised("ValueError", EmptyVocabulary,
                                 [NoFrame EXCEPT !.all_texts = locals[w].all_texts])]
            /\ pc' = [pc EXCEPT ![w] = "done"]
            /\ vec' = vec
       ELSE /\ vec' = [vec EXCEPT ![VectorizerOf(w)] = Fit(locals[w].all_texts)]
            /\ pc' = [pc EXCEPT ![w] = "transform"]
            /\ out' = out
    /\ UNCHANGED <<stop_words, lemmatizer, call, ret, args, locals>>

\* matcher.py:39, the transform of fit_transform
TransformTexts(w) ==
    /\ pc[w] = "transform"
    /\ locals' = [locals EXCEPT ![w].tfidf_matrix =
                      Transform(vec[VectorizerOf(w)], locals[w].all_texts)]
    /\ pc' = [pc EXCEPT ![w] = "score"]
    /\ UNCHANGED <<stop_words, lemmatizer, call, ret, args, vec, out>>

\* matcher.py:42-60
Score(w) ==
    /\ pc[w] = "score"
    /\ \E results \in {Results(locals[w].tfidf_matrix, args[w].resume_names)} :
           out' = [out EXCEPT ![w] =
                      Returned(SortByScore(results),
                               [all_texts |-> locals[w].all_texts,
                                vocabulary |-> vec[VectorizerOf(w)].vocabulary,
                                results |-> results])]
    /\ pc' = [pc EXCEPT ![w] = "done"]
    /\ UNCHANGED <<stop_words, lemmatizer, call, ret, args, locals, vec>>

\* the caller takes the outcome; the call's frame, and the vectorizer it
\* holds, are gone
Leave(w) ==
    /\ pc[w] = "done"
    /\ pc' = [pc EXCEPT ![w] = "idle"]
    /\ args' = [args EXCEPT ![w] = NoArgs]
    /\ locals' = [locals EXCEPT ![w] = NoLocals]
    /\ vec' = [vec EXCEPT ![VectorizerOf(w)] = NoVectorizer]
    /\ out' = [out EXCEPT ![w] = NoOutcome]
    /\ UNCHANGED <<stop_words, lemmatizer, call, ret>>

NextConc ==
    \E w \in Workers :
        \/ Enter(w)
        \/ Validate(w)
        \/ Preprocess(w)
        \/ FitVectorizer(w)
        \/ TransformTexts(w)
        \/ Score(w)
        \/ Leave(w)

SpecConc == Init /\ [][NextConc]_vars

(***************************************************************************)
(* The claims                                                              *)
(***************************************************************************)
\* the last call was match_resumes
CoreCall == call.fn = "match_resumes"

\* ... with at least one candidate and as many names as texts
Paired ==
    /\ CoreCall
    /\ call.resume_texts # << >>
    /\ Len(call.resume_texts) = Len(call.resume_names)

Candidates == 1..Len(call.resume_texts)

\* the token sequence a text normalizes to
Survivors(text) == ProcessedTokens(stop_words, lemmatizer, text)

SetOf(seq) == {seq[i] : i \in 1..Len(seq)}

\* C1: when the query and every candidate normalize to an empty token
\* sequence, match_resumes does not fail: it returns one entry per
\* candidate, each with score 0.
C1_EmptyVocabularyScoresZero ==
    ( /\ Paired
      /\ Survivors(call.job_text) = << >>
      /\ \A i \in Candidates : Survivors(call.resume_texts[i]) = << >> )
    => /\ ret.kind = "return"
       /\ Len(ret.value) = Len(call.resume_texts)
       /\ \A i \in 1..Len(ret.value) : IsZero(ret.value[i].score)

\* C2: every call of match_resumes in which the number of names differs
\* from the number of texts, one of the two lists being empty included,
\* raises ValueError and returns nothing.
C2_LengthMismatchRaises ==
    (CoreCall /\ Len(call.resume_names) # Len(call.resume_texts))
    => ret.kind = "ValueError"

\* C3: for a non-empty candidate list with as many names as texts, the
\* result is a permutation of the input positions: one entry per candidate,
\* each with that candidate's name and that candidate's score.
C3_ResultIsPermutation ==
    Paired
    => /\ ret.kind = "return"
       /\ Len(ret.value) = Len(call.resume_texts)
       /\ \E p \in Permutations(Candidates) :
              \A i \in Candidates :
                  ret.value[i] = [name  |-> call.resume_names[p[i]],
                                  score |-> ret.frame.results[p[i]].score]

\* C4: the sequence match_resumes returns is non-increasing in score, and
\* the entries of any one score stand in the output in the order they
\* stand in the input.
C4_SortedDescendingAndStable ==
    (CoreCall /\ ret.kind = "return")
    => /\ \A i \in 1..(Len(ret.value) - 1) :
              ~FLess(ret.value[i].score, ret.value[i + 1].score)
       /\ Len(ret.value) = Len(ret.frame.results)
       /\ \A i \in 1..Len(ret.value) :
              SelectSeq(ret.value, LAMBDA r : r.score = ret.value[i].score)
              = SelectSeq(ret.frame.results, LAMBDA r : r.score = ret.value[i].score)

\* a call has returned two candidates of different names with one and the
\* same score, which is not 0
C4_TieReturned ==
    /\ Paired
    /\ ret.kind = "return"
    /\ Len(ret.value) = 2
    /\ ret.value[1].score = ret.value[2].score
    /\ ~IsZero(ret.value[1].score)
    /\ ret.value[1].name # ret.value[2].name

\* C5: a candidate that normalizes to an empty token sequence, ranked with a
\* query and candidates that have surviving terms, never makes
\* match_resumes raise and has score 0; and when the query's token sequence
\* is empty while some candidate has terms, every candidate has score 0.
C5_EmptyDocumentScoresZero ==
    ( /\ Paired
      /\ \E j \in Candidates : Survivors(call.resume_texts[j]) # << >>
      /\ \/ Survivors(call.job_text) = << >>
         \/ \E i \in Candidates : Survivors(call.resume_texts[i]) = << >> )
    => /\ ret.kind = "return"
       /\ \A i \in Candidates :
              ( \/ Survivors(call.job_text) = << >>
                \/ Survivors(call.resume_texts[i]) = << >> )
              => IsZero(ret.frame.results[i].score)

\* C6: when some candidate's text is character-identical to the query text,
\* that candidate's score is the maximum over the candidates of the call.
C6_IdenticalTextScoresHighest ==
    (Paired /\ \E i \in Candidates : call.resume_texts[i] = call.job_text)
    => /\ ret.kind = "return"
       /\ \A i \in Candidates :
              call.resume_texts[i] = call.job_text
              => \A j \in Candidates :
                     ~FLess(ret.frame.results[i].score, ret.frame.results[j].score)

\* C7: every score match_resumes returns lies in [0.0, 1.0] (a score is a
\* magnitude here, so only the upper end can fail).
C7_ScoreInUnitInterval ==
    (CoreCall /\ ret.kind = "return")
    => \A i \in 1..Len(ret.value) : ~FLess(FOne, ret.value[i].score)

\* the calls the workers make, each with the outcome match_resumes has for
\* it when nothing else runs
RunAlone ==
    {<<c, MatchResumes(StopWordsEnglish, WordNetLemmas,
                       c.resume_texts, c.resume_names, c.job_text)>> :
        c \in ConcurrentCalls}

C9_VocabularyIsSurvivorSet ==
    Paired
    => SetOf(ret.frame.vocabulary)
       = SetOf(Survivors(call.job_text))
         \cup UNION {SetOf(Survivors(call.resume_texts[i])) : i \in Candidates}

\* C10: preprocess_text discards exactly the tokens that are a single
\* punctuation character or a member of the stopword set, tested on the
\* lowercased token, and returns the lemmas of the others in their order.
C10_DiscardsExactlyPunctuationAndStopwords ==
    call.fn = "preprocess_text"
    => The({ret.frame.processed_tokens
            = Tup(LAMBDA i : Lemmatize(lemmatizer, others[i]), Len(others)) :
            others \in {SelectSeq(ret.frame.tokens,
                                  LAMBDA t : /\ ~(Len(t) = 1 /\ t[1] \in SetOf(Punctuation))
                                             /\ t \notin stop_words)}})
====
